---------------------------- MODULE Spec2Model ----------------------------
(***************************************************************************)
(* FreeKeel: annotate a PDF in the browser (text labels, freehand          *)
(* strokes), undo, and export a flattened copy.                            *)
(*                                                                         *)
(* The repository holds three copies of the script:                        *)
(*   "app"      src/app.js lines 1-303,                                    *)
(*   "app_old"  src/app.js lines 305-511 (an earlier copy left in the file)*)
(*   "part_000" src/unnamed/part_000 (colour, size and eraser controls).   *)
(* The variable build says which copy runs; it never changes.              *)
(*                                                                         *)
(* One action is one run of a handler from its start, or from the await    *)
(* it was suspended at, to its next await or its end: JavaScript runs      *)
(* each such piece without interruption.                                   *)
(*                                                                         *)
(* Specifications:                                                         *)
(*   Spec         every handler, and the mousemove that returns at once;   *)
(*                a load is begun when none is in flight                   *)
(*   SpecRace     as Spec, and a load may be begun while one is in flight  *)
(*   SpecHistory  one session of text clicks and undos, past the cap of    *)
(*                the undo stack                                           *)
(*   SpecExport   one session of edits and exports, with longer strokes    *)
(*   SpecEdit     one session of edits and undos, with three annotations   *)
(*   SpecAlias    edits and undos on two pages, with the objects'          *)
(*                identities recorded                                      *)
(*   SpecMap      edits and exports with the pointer at the corners of     *)
(*                the overlay                                              *)
(***************************************************************************)
EXTENDS Integers, Sequences, FiniteSets, TLC

VARIABLES
    build,        \* which copy of the script runs
    mode,         \* let mode
    pdfBytes,     \* let pdfBytes: "null" or the name of the document held
    pages,        \* let pages: the overlays pushed by renderPdf, in push order
    wired,        \* per overlay of pages: wire()'s closure (drawing, stroke)
    annotations,  \* let annotations
    history,      \* let history
    painted,      \* per overlay of pages: what its canvas shows
    loads,        \* the loadFile / createNewPdf calls in flight
    races,        \* history variable: how many of them began with another in flight
    save,         \* the savePdf call in flight
    last,         \* history variable: the handler that ran last and how it ended
    unit,         \* history variable: the edit unit in progress or just completed
    snaps,        \* history variable: the snapshots pushed and undos made (SpecHistory)
    tagged        \* history variable: whether object identities are recorded (SpecAlias)

vars == <<build, mode, pdfBytes, pages, wired, annotations, history, painted,
          loads, races, save, last, unit, snaps, tagged>>

-----------------------------------------------------------------------------
(* Bounds of the model *)

MaxMarks == 2       \* edits are offered while annotations holds fewer marks
MaxRaces == 1       \* SpecRace: loads begun while another load is in flight
MaxMarksHist == 52  \* SpecHistory: as MaxMarks
MaxMarksExport == 4 \* SpecExport: as MaxMarks
MaxMarksEdit == 4   \* SpecEdit: as MaxMarks
MaxMarksAlias == 3  \* SpecAlias: as MaxMarks
MaxMarksMap == 3    \* SpecMap: as MaxMarks

(* Program constants *)

HistoryCap == 50
DefaultTextSize == 18
DefaultLineWidth == 2

Builds == {"app", "app_old", "part_000"}

-----------------------------------------------------------------------------
(* The documents offered to the program.  A byte buffer is named by what   *)
(* the external libraries report for it, given by the operators below; two *)
(* buffers the libraries report the same for are one document here.        *)

\* the files the user picks or drops
Files == {"1xLETTER", "2xA4", "malformed"}
\* what createNewPdf builds from the answers "1" and "LETTER" (the defaults)
NewDocs == {"1xLETTER"}

\* pdf.numPages, and the number of pages PDFDocument.load(bytes) holds
numPages(d) == IF d = "2xA4" THEN 2 ELSE 1

\* page.getSize() in PDF points
getSize(d) ==
    IF d = "2xA4" THEN [width |-> 595, height |-> 842]
    ELSE [width |-> 612, height |-> 792]

\* how pdfjsLib.getDocument(bytes).promise settles (no document offered here
\* asks for a password)
docKind(d) == IF d = "malformed" THEN "malformed" ELSE "ok"

\* page.getViewport({ scale: 1.5 }), stored into canvas.width / canvas.height,
\* which keep the integer part
viewport(d) ==
    IF d = "1xCROPPED" THEN [width |-> 900, height |-> 1400]
    ELSE [width |-> (3 * getSize(d).width) \div 2,
          height |-> (3 * getSize(d).height) \div 2]

(* The inputs of the handlers *)

\* e.clientX - rect.left, e.clientY - rect.top
ClickPts == {<<50, 100>>}
DownPts == {<<0, 0>>}
MovePts == {<<90, 140>>}
Texts == {"Hi"}                    \* what prompt("Text:") returns when not cancelled
SizeInputs == {24}                 \* parseInt(textSizeInput.value); 0 stands for NaN
TextColor == "#ff0000"             \* textColorInput.value
DrawColor == "#0000ff"             \* drawColorInput.value
WidthInputs == {0}                 \* parseInt(lineWidthInput.value); 0 stands for NaN

\* the eraser button of part_000 is not pressed here: its strokes differ from
\* the others' in their colour alone
Modes == {"text", "draw"}

\* a || b on numbers: b when a is undefined, NaN or 0 (all written 0 here)
OrNum(a, b) == IF a = 0 THEN b ELSE a
\* a || b on strings: b when a is undefined or "" (both written "" here)
OrStr(a, b) == IF a = "" THEN b ELSE a

-----------------------------------------------------------------------------
(* Exact fractions <<numerator, denominator>> in lowest terms, for the     *)
(* export's coordinates (JavaScript computes them in floating point).      *)

RECURSIVE GCD(_, _)
GCD(a, b) == IF b = 0 THEN a ELSE GCD(b, a % b)

Abs(n) == IF n < 0 THEN -n ELSE n

Rat(n, d) ==
    LET g == GCD(Abs(n), d) IN <<n \div g, d \div g>>

-----------------------------------------------------------------------------
(* Sequences *)

Last(s) == s[Len(s)]
Front(s) == SubSeq(s, 1, Len(s) - 1)

RECURSIVE Concat(_)
Concat(ss) == IF ss = <<>> THEN <<>> ELSE Head(ss) \o Concat(Tail(ss))

-----------------------------------------------------------------------------
(* The values of the history variables *)

Quiet == [op |-> "-", err |-> "-", out |-> <<>>]
NoUnit == [phase |-> "none", pre |-> <<>>, at |-> 0, moves |-> 0]
NoSnaps == [clean |-> TRUE, pushed |-> <<>>, undos |-> 0]
Idle == [pc |-> "idle", doc |-> "null"]

-----------------------------------------------------------------------------
(* redraw: clear every overlay of pages, then paint the annotations in     *)
(* order, each on pages[a.pageIndex]; one whose page is missing is skipped.*)

\* the canvas calls made for one annotation
Shape(a) ==
    IF a.type = "text"
    THEN [type |-> "text", text |-> a.text, x |-> a.x, y |-> a.y,
          font |-> IF build = "app_old" THEN DefaultTextSize
                   ELSE OrNum(a.size, DefaultTextSize),
          style |-> IF build = "part_000" THEN OrStr(a.color, "yellow") ELSE "yellow"]
    ELSE [type |-> "stroke", points |-> a.points,
          lineWidth |-> IF build = "app_old" THEN 1
                        ELSE OrNum(a.width, DefaultLineWidth),
          style |-> IF build = "part_000" THEN OrStr(a.color, "lime") ELSE "lime"]

\* the loop of redraw with a fault seeded: the annotations are taken newest first
RECURSIVE PaintOnNewestFirst(_, _)
PaintOnNewestFirst(k, anns) ==
    IF anns = <<>> THEN <<>>
    ELSE LET a == Last(anns) IN
         (IF a.pageIndex + 1 = k THEN <<Shape(a)>> ELSE <<>>)
             \o PaintOnNewestFirst(k, Front(anns))

RECURSIVE PaintOn(_, _)
PaintOn(k, anns) ==
    IF anns = <<>> THEN <<>>
    ELSE LET a == Head(anns) IN
         (IF a.pageIndex + 1 = k THEN <<Shape(a)>> ELSE <<>>) \o PaintOn(k, Tail(anns))

redraw(pgs, anns) == [k \in 1..Len(pgs) |-> PaintOn(k, anns)]

-----------------------------------------------------------------------------
(* The undo stack *)

(* Object identity.  The field oid of an annotation is a history field: *)
(* which object it is.  An object made (a literal, a clone) gets an oid no *)
(* object held has; without tagged every oid is 0.                         *)

\* the objects of a sequence of annotations, and of the entries of a history
Oids(anns) == {anns[j].oid : j \in 1..Len(anns)}
HistoryOids(h) == UNION {Oids(h[i]) : i \in 1..Len(h)}

\* the n-th least positive number not in used
RECURSIVE Fresh(_, _)
Fresh(used, n) ==
    LET least == CHOOSE i \in 1..(Cardinality(used) + 1) :
                     i \notin used /\ \A j \in 1..(i - 1) : j \in used
    IN IF n = 1 THEN least ELSE Fresh(used \cup {least}, n - 1)

\* structuredClone(annotations): a copy, field by field and point by point,
\* every object of it new (used: the objects held)
structuredClone(anns, used) ==
    [j \in 1..Len(anns) |->
        LET a == anns[j]
            new == IF tagged THEN Fresh(used, j) ELSE 0
        IN
        IF a.type = "text"
        THEN [type |-> a.type, pageIndex |-> a.pageIndex, x |-> a.x, y |-> a.y,
              text |-> a.text, size |-> a.size, color |-> a.color, doc |-> a.doc,
              oid |-> new]
        ELSE [type |-> a.type, pageIndex |-> a.pageIndex,
              points |-> [i \in 1..Len(a.points) |-> <<a.points[i][1], a.points[i][2]>>],
              width |-> a.width, color |-> a.color, doc |-> a.doc, oid |-> new]]

\* pushHistory with a fault seeded: the sequence is pushed as it is, not a clone
pushHistoryNoClone(h, anns) ==
    LET pushed == Append(h, anns) IN
    IF Len(pushed) > HistoryCap THEN Tail(pushed) ELSE pushed

\* pushHistory with a fault seeded: at the cap the newest snapshot is dropped
pushHistoryDropNewest(h, anns) ==
    LET pushed == Append(h, structuredClone(anns, Oids(anns) \cup HistoryOids(h))) IN
    IF Len(pushed) > HistoryCap THEN Front(pushed) ELSE pushed

\* history.push(structuredClone(annotations)); if (history.length > 50) history.shift()
pushHistory(h, anns) ==
    LET pushed == Append(h, structuredClone(anns, Oids(anns) \cup HistoryOids(h))) IN
    IF Len(pushed) > HistoryCap THEN Tail(pushed) ELSE pushed

\* annotations = history.pop() makes every stroke object a closure still holds
\* an object that is no longer in annotations (written -1)
Detached(w) ==
    [k \in 1..Len(w) |-> [w[k] EXCEPT !.stroke = IF @ > 0 THEN -1 ELSE @]]

\* closures that would hold a position of annotations, not a stroke object:
\* a position the new sequence still has stays held
RebindByIndex(w, old, new) ==
    [k \in 1..Len(w) |->
        [w[k] EXCEPT !.stroke = IF @ > Len(new) THEN -1 ELSE @]]

\* the closures after annotations = new replaces old: a closure holds its
\* stroke object still, which is in new only if new holds that very object
\* (with the identities recorded; a snapshot is a clone and holds none)
Rebind(w, old, new) ==
    [k \in 1..Len(w) |->
        [w[k] EXCEPT !.stroke =
            IF @ > 0 /\ tagged /\ \E j \in 1..Len(new) : new[j].oid = old[@].oid
            THEN CHOOSE j \in 1..Len(new) : new[j].oid = old[w[k].stroke].oid
            ELSE IF @ > 0 THEN -1 ELSE @]]

-----------------------------------------------------------------------------
Init ==
    /\ build \in Builds
    /\ mode = "text"
    /\ pdfBytes = "null"
    /\ pages = <<>>
    /\ wired = <<>>
    /\ annotations = <<>>
    /\ history = <<>>
    /\ painted = <<>>
    /\ loads = {}
    /\ races = 0
    /\ save = Idle
    /\ last = Quiet
    /\ unit = NoUnit
    /\ snaps = NoSnaps
    /\ tagged = FALSE

-----------------------------------------------------------------------------
(* Toolbar *)

\* textModeBtn.onclick, drawModeBtn.onclick, eraserModeBtn.onclick
setMode(m) ==
    /\ m \in Modes
    /\ m # mode
    /\ mode' = m
    /\ UNCHANGED <<build, pdfBytes, pages, wired, annotations, history, painted,
                   loads, races, save>>

DrawModes == IF build = "part_000" THEN {"draw", "eraser"} ELSE {"draw"}

-----------------------------------------------------------------------------
(* wire(canvas, ctx, pageIndex): the handlers of the overlay at position k *)
(* of pages.  pageIndex is the loop index the overlay was wired with.      *)
(* The field doc of an annotation is a history field, the byte buffer held *)
(* when it was made: the program stores no such field and reads none.      *)

\* the oid of the object literal a handler makes, after its pushHistory()
NewOid == IF tagged THEN Fresh(Oids(annotations) \cup HistoryOids(history'), 1) ELSE 0

TextAnnotation(k, pt, text, sz) ==
    [type |-> "text", pageIndex |-> pages[k].pageIndex, x |-> pt[1], y |-> pt[2],
     text |-> text,
     size |-> CASE build = "app" -> DefaultTextSize
                [] build = "part_000" -> OrNum(sz, DefaultTextSize)
                [] OTHER -> 0,
     color |-> IF build = "part_000" THEN TextColor ELSE "",
     doc |-> pdfBytes, oid |-> NewOid]

\* canvas "click"; text = "" stands for a prompt that was cancelled or left empty
click(k, pt, text, sz) ==
    /\ k \in 1..Len(pages)
    /\ mode = "text"
    /\ IF build = "app_old"
       THEN /\ history' = pushHistory(history, annotations)
            /\ IF text = ""
               THEN UNCHANGED <<annotations, painted>>
               ELSE /\ annotations' = Append(annotations, TextAnnotation(k, pt, text, sz))
                    /\ painted' = redraw(pages, annotations')
       ELSE IF text = ""
            THEN UNCHANGED <<annotations, history, painted>>
            ELSE /\ history' = pushHistory(history, annotations)
                 /\ annotations' = Append(annotations, TextAnnotation(k, pt, text, sz))
                 /\ IF build = "part_000"
                    THEN UNCHANGED painted
                    ELSE painted' = redraw(pages, annotations')
    /\ UNCHANGED <<build, mode, pdfBytes, pages, wired, loads, races, save>>

StrokeAnnotation(k, pt, w) ==
    [type |-> "stroke", pageIndex |-> pages[k].pageIndex,
     points |-> IF build = "app_old" THEN <<>> ELSE <<pt>>,
     width |-> CASE build = "app" -> DefaultLineWidth
                 [] build = "part_000" -> OrNum(w, DefaultLineWidth)
                 [] OTHER -> 0,
     color |-> IF build = "part_000"
               THEN (IF mode = "eraser" THEN "#FFFFFF" ELSE DrawColor)
               ELSE "",
     doc |-> pdfBytes, oid |-> NewOid]

\* canvas "mousedown"
mousedown(k, pt, w) ==
    /\ k \in 1..Len(pages)
    /\ mode \in DrawModes
    /\ history' = pushHistory(history, annotations)
    /\ annotations' = Append(annotations, StrokeAnnotation(k, pt, w))
    /\ wired' = [wired EXCEPT ![k] = [drawing |-> TRUE, stroke |-> Len(annotations')]]
    /\ UNCHANGED <<build, mode, pdfBytes, pages, painted, loads, races, save>>

\* o.points.push(pt), as a sequence that may hold the object o shows it
PointPushed(anns, o, pt) ==
    [j \in 1..Len(anns) |->
        IF anns[j].oid = o THEN [anns[j] EXCEPT !.points = Append(@, pt)] ELSE anns[j]]

\* a mousemove that would write to the newest stroke held, whichever overlay
\* began it
mousemoveNewest(k, pt) ==
    /\ k \in 1..Len(pages)
    /\ wired[k].drawing
    /\ mode \in DrawModes
    /\ LET strokes == {j \in 1..Len(annotations) : annotations[j].type = "stroke"}
           newest == CHOOSE j \in strokes : \A i \in strokes : i <= j
       IN IF wired[k].stroke > 0 /\ strokes # {}
          THEN annotations' = [annotations EXCEPT ![newest].points = Append(@, pt)]
          ELSE UNCHANGED annotations
    /\ UNCHANGED history
    /\ painted' = redraw(pages, annotations')
    /\ UNCHANGED <<build, mode, pdfBytes, pages, wired, loads, races, save>>

\* canvas "mousemove".  With the objects' identities recorded, the point is
\* pushed to the stroke object wherever that object is held.
mousemove(k, pt) ==
    /\ k \in 1..Len(pages)
    /\ wired[k].drawing
    /\ mode \in DrawModes
    /\ IF wired[k].stroke > 0
       THEN IF tagged
            THEN LET o == annotations[wired[k].stroke].oid IN
                 /\ annotations' = PointPushed(annotations, o, pt)
                 /\ history' = [h \in 1..Len(history) |-> PointPushed(history[h], o, pt)]
            ELSE /\ annotations' =
                      [annotations EXCEPT ![wired[k].stroke].points = Append(@, pt)]
                 /\ UNCHANGED history
       ELSE UNCHANGED <<annotations, history>>
    /\ painted' = redraw(pages, annotations')
    /\ UNCHANGED <<build, mode, pdfBytes, pages, wired, loads, races, save>>

\* a mouseup that would end the gesture of the first overlay alone
mouseupFirstOnly ==
    /\ wired' = [k \in 1..Len(wired) |->
                   IF k = 1 THEN [drawing |-> FALSE, stroke |-> 0] ELSE wired[k]]
    /\ UNCHANGED <<build, mode, pdfBytes, pages, annotations, history, painted,
                   loads, races, save>>

\* a mouseup that would snapshot as well
mouseupPushes ==
    /\ wired' = [k \in 1..Len(wired) |-> [drawing |-> FALSE, stroke |-> 0]]
    /\ history' = pushHistory(history, annotations)
    /\ UNCHANGED <<build, mode, pdfBytes, pages, annotations, painted,
                   loads, races, save>>

\* window "mouseup": every wire() call added a listener.  The old copy leaves
\* stroke as it is; it is written 0 all the same, as no handler reads stroke
\* while drawing is false and mousedown assigns it before drawing is true again.
mouseup ==
    /\ wired' = [k \in 1..Len(wired) |-> [drawing |-> FALSE, stroke |-> 0]]
    /\ UNCHANGED <<build, mode, pdfBytes, pages, annotations, history, painted,
                   loads, races, save>>

-----------------------------------------------------------------------------
\* undo with a fault seeded: the oldest snapshot is taken, not the newest
undoOldest ==
    /\ IF history = <<>>
       THEN UNCHANGED <<annotations, history, painted, wired>>
       ELSE /\ annotations' = Head(history)
            /\ history' = Tail(history)
            /\ painted' = redraw(pages, annotations')
            /\ wired' = Detached(wired)
    /\ UNCHANGED <<build, mode, pdfBytes, pages, loads, races, save>>

\* undo with a fault seeded: no test of history.length
undoUnguarded ==
    /\ annotations' = IF history = <<>> THEN <<>> ELSE Last(history)
    /\ history' = IF history = <<>> THEN <<>> ELSE Front(history)
    /\ painted' = redraw(pages, annotations')
    /\ wired' = Detached(wired)
    /\ UNCHANGED <<build, mode, pdfBytes, pages, loads, races, save>>

\* undoBtn.onclick
undo ==
    /\ IF history = <<>>
       THEN UNCHANGED <<annotations, history, painted, wired>>
       ELSE /\ annotations' = Last(history)
            /\ history' = Front(history)
            /\ painted' = redraw(pages, annotations')
            /\ wired' = Rebind(wired, annotations, annotations')
    /\ UNCHANGED <<build, mode, pdfBytes, pages, loads, races, save>>

-----------------------------------------------------------------------------
(* Loading.  A call in flight is [id, pc, doc, i, changed]: pc is the      *)
(* await it is suspended at, i the loop index of renderPdf; changed is a   *)
(* history field, whether the call's reset wrote a value other than the    *)
(* one held to annotations, history, pages or pdfBytes.                    *)

\* the calls that can be in flight together are told apart by these names
LoadIds == {1, 2}
InFlight == {t.id : t \in loads}
FreshId == CHOOSE i \in LoadIds \ InFlight : \A j \in LoadIds \ InFlight : i <= j

\* the task a reset leaves in flight
NewTask(d) ==
    [id |-> FreshId, pc |-> "getDocument", doc |-> d, i |-> 0,
     changed |-> annotations # <<>> \/ history # <<>> \/ pages # <<>> \/ pdfBytes # d]

\* resetSession with a fault seeded: history = [] is left out
resetSessionKeepsHistory(d) ==
    /\ pdfBytes' = d
    /\ annotations' = <<>>
    /\ pages' = <<>>
    /\ wired' = <<>>
    /\ painted' = <<>>
    /\ loads' = loads \cup {NewTask(d)}
    /\ races' = IF loads = {} THEN races ELSE races + 1
    /\ UNCHANGED <<build, mode, save, history>>

\* pdfBytes = ...; annotations = []; history = []; then renderPdf up to
\* await loadingTask.promise: viewer.innerHTML = ""; pages = []
resetSession(d) ==
    /\ pdfBytes' = d
    /\ annotations' = <<>>
    /\ history' = <<>>
    /\ pages' = <<>>
    /\ wired' = <<>>
    /\ painted' = <<>>
    /\ loads' = loads \cup {NewTask(d)}
    /\ races' = IF loads = {} THEN races ELSE races + 1
    /\ UNCHANGED <<build, mode, save>>

\* loadFile (fileInput "change", window "drop"), from where it resumes after
\* await file.arrayBuffer(): it reads and writes nothing before that
loadFile(f) ==
    /\ f \in Files
    /\ resetSession(f)

\* createNewPdf (newBtn.onclick; the old copy has no such button), from where it
\* resumes after await doc.save(): before that come the prompts and the blank
\* pages, and no read or write of the program's state
createNewPdf(d) ==
    /\ build # "app_old"
    /\ d \in NewDocs
    /\ resetSession(d)

\* loadingTask.promise rejects (malformed bytes): renderPdf ends, in its catch
\* (app, part_000) or with the rejection unhandled
getDocumentFails(t) ==
    /\ t \in loads
    /\ t.pc = "getDocument"
    /\ docKind(t.doc) = "malformed"
    /\ loads' = loads \ {t}
    /\ UNCHANGED <<build, mode, pdfBytes, pages, wired, annotations, history,
                   painted, races, save>>

\* loadingTask.promise resolves
getDocumentResolves(t) ==
    /\ t \in loads
    /\ t.pc = "getDocument"
    /\ docKind(t.doc) = "ok"
    /\ loads' = (loads \ {t}) \cup {[t EXCEPT !.pc = "page"]}
    /\ UNCHANGED <<build, mode, pdfBytes, pages, wired, annotations, history,
                   painted, races, save>>

Overlay(t) ==
    [doc |-> t.doc, pageIndex |-> t.i,
     width |-> viewport(t.doc).width, height |-> viewport(t.doc).height]

\* one turn of renderPdf's loop, resumed after pdf.getPage and page.render:
\* wire(anno, annoCtx, i); pages.push(...); after the last page the loop ends
\* and (app, part_000) redraw() runs
renderPage(t) ==
    /\ t \in loads
    /\ t.pc = "page"
    /\ pages' = Append(pages, Overlay(t))
    /\ wired' = Append(wired, [drawing |-> FALSE, stroke |-> 0])
    /\ IF t.i + 1 < numPages(t.doc)
       THEN /\ loads' = (loads \ {t}) \cup {[t EXCEPT !.i = @ + 1]}
            /\ painted' = Append(painted, <<>>)
       ELSE /\ loads' = loads \ {t}
            /\ painted' = IF build = "app_old"
                          THEN Append(painted, <<>>)
                          ELSE redraw(pages', annotations)
    /\ UNCHANGED <<build, mode, pdfBytes, annotations, history, races, save>>

-----------------------------------------------------------------------------
(* Export.  save is [pc, doc]: the call in flight holds the document it   *)
(* loaded.  What savePdf asks of pdf-lib is a sequence of calls.           *)

\* a mapping that would keep the overlay's downward y
MapYNoFlip(y, size, canvas, drop) ==
    Rat(y * size.height - drop * canvas.height, canvas.height)

\* a point of the overlay in page coordinates: x * sx, height - y * sy - drop
MapX(x, size, canvas) == Rat(x * size.width, canvas.width)
MapY(y, size, canvas, drop) ==
    Rat(size.height * canvas.height - y * size.height - drop * canvas.height,
        canvas.height)

\* a text size that would be the stored one alone, with no default
fontSizeStored(a) == a.size

\* const size = a.size || 18; the old copy writes 18
fontSize(a) ==
    IF build = "app_old" THEN DefaultTextSize ELSE OrNum(a.size, DefaultTextSize)

\* the body of savePdf's loop for one annotation: the calls it makes, and
\* whether it throws.  pdfDoc.getPage(i) is taken to give undefined for an i
\* the document has no page for, as the guard written after it expects.
DrawOne(a, doc, pgs) ==
    LET hasPage == a.pageIndex < numPages(doc)
        hasView == a.pageIndex < Len(pgs)
        size == getSize(doc)
        canvas == pgs[a.pageIndex + 1]
        thickness == IF build = "app_old" THEN DefaultLineWidth
                     ELSE OrNum(a.width, DefaultLineWidth)
        P(pt) == <<MapX(pt[1], size, canvas), MapY(pt[2], size, canvas, 0)>>
    IN
    IF ~(hasPage /\ hasView)
    THEN [calls |-> <<>>, threw |-> build = "app_old"]
    ELSE IF a.type = "text"
    THEN [calls |-> <<[op |-> "drawText", page |-> a.pageIndex, text |-> a.text,
                       x |-> MapX(a.x, size, canvas),
                       y |-> MapY(a.y, size, canvas, fontSize(a)),
                       size |-> fontSize(a)]>>,
          threw |-> FALSE]
    ELSE [calls |-> [i \in 1..(IF Len(a.points) > 0 THEN Len(a.points) - 1 ELSE 0) |->
                       [op |-> "drawLine", page |-> a.pageIndex,
                        start |-> P(a.points[i]), end |-> P(a.points[i + 1]),
                        thickness |-> thickness]],
          threw |-> FALSE]

\* the loop with a fault seeded: the annotations are taken newest first
RECURSIVE FlattenNewestFirst(_, _, _)
FlattenNewestFirst(anns, doc, pgs) ==
    IF anns = <<>> THEN [calls |-> <<>>, threw |-> FALSE]
    ELSE LET one == DrawOne(Last(anns), doc, pgs) IN
         IF one.threw THEN one
         ELSE LET rest == FlattenNewestFirst(Front(anns), doc, pgs) IN
              [calls |-> one.calls \o rest.calls, threw |-> rest.threw]

\* for (const a of annotations) { ... }
RECURSIVE Flatten(_, _, _)
Flatten(anns, doc, pgs) ==
    IF anns = <<>> THEN [calls |-> <<>>, threw |-> FALSE]
    ELSE LET one == DrawOne(Head(anns), doc, pgs) IN
         IF one.threw THEN one
         ELSE LET rest == Flatten(Tail(anns), doc, pgs) IN
              [calls |-> one.calls \o rest.calls, threw |-> rest.threw]

\* savePdf with a fault seeded: no test of pdfBytes
savePdfUnguarded ==
    /\ save.pc = "idle"
    /\ save' = [pc |-> "load", doc |-> pdfBytes]
    /\ UNCHANGED <<build, mode, pdfBytes, pages, wired, annotations, history,
                   painted, loads, races>>

\* saveBtn.onclick, up to await PDFDocument.load(...); with no bytes: the alert.
\* One call is followed at a time: calls in flight together write nothing the
\* others read.
savePdf ==
    /\ save.pc = "idle"
    /\ IF pdfBytes = "null"
       THEN UNCHANGED save
       ELSE save' = [pc |-> "load", doc |-> pdfBytes]
    /\ UNCHANGED <<build, mode, pdfBytes, pages, wired, annotations, history,
                   painted, loads, races>>

\* an export that would take the marks it has drawn out of the store
savePdfDrawCommits ==
    /\ save.pc = "load"
    /\ docKind(save.doc) = "ok"
    /\ save' = Idle
    /\ annotations' = <<>>
    /\ UNCHANGED <<build, mode, pdfBytes, pages, wired, history,
                   painted, loads, races>>

\* savePdf resumed after PDFDocument.load and embedFont: the loop over the
\* annotations, then pdfDoc.save() and the download, or the TypeError that ends
\* the call.  Nothing the rest of the program reads is written after the loop,
\* so the await of pdfDoc.save() is not a separate step.
savePdfDraw ==
    /\ save.pc = "load"
    /\ docKind(save.doc) = "ok"
    /\ save' = Idle
    /\ UNCHANGED <<build, mode, pdfBytes, pages, wired, annotations, history,
                   painted, loads, races>>

\* PDFDocument.load rejects (malformed bytes): savePdf ends there, the
\* rejection unhandled
savePdfLoadFails ==
    /\ save.pc = "load"
    /\ docKind(save.doc) = "malformed"
    /\ save' = Idle
    /\ UNCHANGED <<build, mode, pdfBytes, pages, wired, annotations, history,
                   painted, loads, races>>

\* the calls that run of savePdf made to pdf-lib
Calls ==
    LET r == Flatten(annotations, save.doc, pages) IN
    <<[op |-> "load", doc |-> save.doc], [op |-> "embedFont"]>> \o r.calls
        \o (IF r.threw THEN <<>> ELSE <<[op |-> "save"]>>)

-----------------------------------------------------------------------------
(* The steps of the program, each with what the history variables record:  *)
(* last, the outcome of the step just taken, and unit, how far the edit    *)
(* unit under way has come (pre is annotations as the unit began, at the   *)
(* overlay it is made on, moves whether its gesture has had a mousemove).  *)

Did(op, err, out) == last' = [op |-> op, err |-> err, out |-> out]

\* unit after a step that is no part of an edit unit: phase "cut" (an undo or
\* a reset came between the mousedown of a gesture and its mouseup; pre is the
\* sequence it installed) lasts until the gesture ends, and moves is 2 once a
\* mousemove has come after the cut
Onward == IF unit.phase = "cut" THEN unit ELSE NoUnit

\* unit after annotations = installed came in the middle of a gesture
CutBy(installed) ==
    IF unit.phase \in {"open", "cut"}
    THEN [unit EXCEPT !.phase = "cut", !.pre = installed] ELSE NoUnit

\* the texts, strokes and points held; edits are offered while the bound leaves room
RECURSIVE Marks(_)
Marks(anns) ==
    IF anns = <<>> THEN 0
    ELSE Marks(Tail(anns))
         + (IF Head(anns).type = "text" \/ Head(anns).points = <<>>
            THEN 1 ELSE Len(Head(anns).points))

Room(n) == Marks(annotations) < n /\ Len(history) < n

SetMode ==
    \E m \in Modes :
        setMode(m) /\ last' = Quiet /\ unit' = Onward /\ UNCHANGED <<snaps, tagged>>

\* answers is what the prompt may return
ClickStep(n, answers) ==
    \E k \in 1..Len(pages), pt \in ClickPts, text \in answers, sz \in SizeInputs :
        /\ Room(n)
        /\ click(k, pt, text, sz)
        /\ IF text = "" THEN Did("click", "cancelled", <<>>) ELSE last' = Quiet
        /\ unit' = IF text = "" THEN NoUnit
                   ELSE [phase |-> "done", pre |-> annotations, at |-> k, moves |-> 0]

Click(n) == ClickStep(n, Texts \cup {""}) /\ UNCHANGED <<snaps, tagged>>

MouseDown(n) ==
    \E k \in 1..Len(pages), pt \in DownPts, w \in WidthInputs :
        /\ Room(n)
        /\ mousedown(k, pt, w)
        /\ last' = Quiet
        /\ unit' = [phase |-> "open", pre |-> annotations, at |-> k, moves |-> 0]
        /\ UNCHANGED <<snaps, tagged>>

MouseMove(n) ==
    \E k \in 1..Len(pages), pt \in MovePts :
        /\ wired[k].stroke > 0 => Marks(annotations) < n
        /\ mousemove(k, pt)
        /\ last' = Quiet
        /\ unit' = IF unit.phase = "open" /\ unit.at = k
                   THEN [unit EXCEPT !.moves = 1]
                   ELSE IF unit.phase = "cut" THEN [unit EXCEPT !.moves = 2]
                   ELSE NoUnit
        /\ UNCHANGED <<snaps, tagged>>

\* a mousemove that returns at once: overlay k is not drawing, or the mode is
\* not one that draws
MouseMoveReturns ==
    \E k \in 1..Len(wired) :
        /\ ~(wired[k].drawing /\ mode \in DrawModes)
        /\ Did("mousemove", "returned", <<>>)
        /\ UNCHANGED <<build, mode, pdfBytes, pages, wired, annotations, history,
                       painted, loads, races, save, unit, snaps, tagged>>

MouseUp ==
    /\ mouseup
    /\ last' = Quiet
    /\ unit' = IF unit.phase = "open" THEN [unit EXCEPT !.phase = "done"] ELSE NoUnit
    /\ UNCHANGED <<snaps, tagged>>

UndoStep ==
    /\ undo
    /\ IF history = <<>> THEN Did("undo", "empty", <<>>) ELSE last' = Quiet
    /\ unit' = IF unit.phase = "done" THEN [unit EXCEPT !.phase = "undone"]
               ELSE IF history = <<>> THEN Onward ELSE CutBy(Last(history))

Undo == UndoStep /\ UNCHANGED <<snaps, tagged>>

\* what a reset replaced: whether annotations and history held anything
Replaced == <<[annotations |-> annotations # <<>>, history |-> history # <<>>]>>

\* r bounds the loads begun while another is in flight
LoadFile(r) ==
    \E f \in Files :
        /\ InFlight # LoadIds
        /\ loads # {} => races < r
        /\ loadFile(f)
        /\ Did("loadFile", "-", Replaced) /\ unit' = CutBy(<<>>)
        /\ UNCHANGED <<snaps, tagged>>

CreateNewPdf(r) ==
    \E d \in NewDocs :
        /\ InFlight # LoadIds
        /\ loads # {} => races < r
        /\ createNewPdf(d)
        /\ Did("createNewPdf", "-", Replaced) /\ unit' = CutBy(<<>>)
        /\ UNCHANGED <<snaps, tagged>>

GetDocumentFails ==
    \E t \in loads :
        /\ getDocumentFails(t)
        /\ Did("renderPdf", IF build = "app_old" THEN "unhandled rejection" ELSE "alert",
               <<[doc |-> t.doc, changed |-> t.changed]>>)
        /\ unit' = Onward /\ UNCHANGED <<snaps, tagged>>

GetDocumentResolves ==
    \E t \in loads :
        getDocumentResolves(t) /\ last' = Quiet /\ unit' = Onward
        /\ UNCHANGED <<snaps, tagged>>

RenderPage ==
    \E t \in loads :
        /\ renderPage(t)
        /\ last' = Quiet
        /\ unit' = Onward /\ UNCHANGED <<snaps, tagged>>

SavePdf ==
    /\ savePdf
    /\ IF pdfBytes = "null" THEN Did("savePdf", "alert", <<>>) ELSE last' = Quiet
    /\ unit' = NoUnit /\ UNCHANGED <<snaps, tagged>>

SavePdfDraw ==
    /\ savePdfDraw
    /\ Did("savePdfDraw",
           IF Flatten(annotations, save.doc, pages).threw THEN "TypeError" ELSE "download",
           Calls)
    /\ unit' = NoUnit /\ UNCHANGED <<snaps, tagged>>

SavePdfLoadFails ==
    /\ savePdfLoadFails
    /\ Did("savePdf", "unhandled rejection", <<[op |-> "load", doc |-> save.doc]>>)
    /\ unit' = NoUnit /\ UNCHANGED <<snaps, tagged>>

\* the user's events and the continuations of the calls in flight
Steps(n, r) ==
    \/ SetMode
    \/ Click(n)
    \/ MouseDown(n)
    \/ MouseMove(n)
    \/ MouseUp
    \/ Undo
    \/ LoadFile(r)
    \/ CreateNewPdf(r)
    \/ GetDocumentFails
    \/ GetDocumentResolves
    \/ RenderPage
    \/ SavePdf
    \/ SavePdfLoadFails
    \/ SavePdfDraw

\* Spec: a load is begun only when none is in flight
Next == Steps(MaxMarks, 0) \/ MouseMoveReturns

Spec == Init /\ [][Next]_vars

\* SpecRace: a load may be begun while another is in flight
NextRace == Steps(MaxMarks, MaxRaces)

SpecRace == Init /\ [][NextRace]_vars

-----------------------------------------------------------------------------
(* A session, as a load of document d leaves it. *)

\* the page views of document d alone, in document order
PagesOf(d) == [j \in 1..numPages(d) |-> Overlay([doc |-> d, i |-> j - 1])]

Session(d, t) ==
    /\ build \in Builds
    /\ mode = "text"
    /\ pdfBytes = d
    /\ pages = PagesOf(d)
    /\ wired = [k \in 1..numPages(d) |-> [drawing |-> FALSE, stroke |-> 0]]
    /\ annotations = <<>>
    /\ history = <<>>
    /\ painted = [k \in 1..numPages(d) |-> <<>>]
    /\ loads = {}
    /\ races = 0
    /\ save = Idle
    /\ last = Quiet
    /\ unit = NoUnit
    /\ snaps = NoSnaps
    /\ tagged = t

\* a document of one page
InitSession == Session("1xLETTER", FALSE)

-----------------------------------------------------------------------------
(* SpecHistory: one session of text clicks (each prompt answered) and      *)
(* undos, long enough for the cap of history.  snaps records the run of    *)
(* pushes since the session began (the annotations each snapshot was taken *)
(* of) and the undos that have followed it; clean is false once a push has *)
(* followed an undo.                                                       *)

Dirty == [clean |-> FALSE, pushed |-> <<>>, undos |-> 0]

ClickHistory ==
    /\ ClickStep(MaxMarksHist, Texts)
    /\ snaps' = IF snaps.clean /\ snaps.undos = 0
                THEN [snaps EXCEPT !.pushed = Append(@, annotations)]
                ELSE Dirty
    /\ UNCHANGED tagged

UndoHistory ==
    /\ snaps.clean => snaps.undos <= HistoryCap
    /\ UndoStep
    /\ snaps' = IF snaps.clean THEN [snaps EXCEPT !.undos = @ + 1] ELSE snaps
    /\ UNCHANGED tagged

NextHistory ==
    \/ ClickHistory
    \/ UndoHistory

SpecHistory == InitSession /\ [][NextHistory]_vars

-----------------------------------------------------------------------------
(* SpecExport: one session of edits and exports alone, with room for       *)
(* longer strokes.                                                         *)

NextExport ==
    \/ SetMode
    \/ Click(MaxMarksExport)
    \/ MouseDown(MaxMarksExport)
    \/ MouseMove(MaxMarksExport)
    \/ MouseUp
    \/ SavePdf
    \/ SavePdfDraw

SpecExport == InitSession /\ [][NextExport]_vars

-----------------------------------------------------------------------------
(* SpecEdit: one session of edits and undos alone, with room for three     *)
(* annotations.                                                            *)

NextEdit ==
    \/ SetMode
    \/ Click(MaxMarksEdit)
    \/ MouseDown(MaxMarksEdit)
    \/ MouseMove(MaxMarksEdit)
    \/ MouseUp
    \/ Undo

SpecEdit == InitSession /\ [][NextEdit]_vars

-----------------------------------------------------------------------------
(* SpecAlias: the edits of SpecEdit with every prompt answered, on a       *)
(* document of two pages and with the identities of the annotation objects *)
(* recorded.                                                               *)

InitAlias == Session("2xA4", TRUE)

NextAlias ==
    \/ SetMode
    \/ ClickStep(MaxMarksAlias, Texts) /\ UNCHANGED <<snaps, tagged>>
    \/ MouseDown(MaxMarksAlias)
    \/ MouseMove(MaxMarksAlias)
    \/ MouseUp
    \/ Undo

SpecAlias == InitAlias /\ [][NextAlias]_vars

-----------------------------------------------------------------------------
(* SpecMap: one session of edits and exports on a document of one page,    *)
(* with the pointer at the corners and inside of the overlay.              *)

\* a US Letter page whose overlay is 918 x 1188, and one whose crop box makes
\* the overlay 900 x 1400
MapDocs == {"1xLETTER", "1xCROPPED"}

MapPts == {<<0, 0>>, <<50, 100>>, <<900, 1400>>, <<918, 1188>>}

\* the pointer is over the overlay
InCanvas(pt) == pt[1] <= pages[1].width /\ pt[2] <= pages[1].height

ClickAt ==
    \E pt \in MapPts, text \in Texts, sz \in SizeInputs :
        /\ InCanvas(pt) /\ Room(MaxMarksMap)
        /\ click(1, pt, text, sz)
        /\ last' = Quiet /\ unit' = NoUnit /\ UNCHANGED <<snaps, tagged>>

MouseDownAt ==
    \E pt \in MapPts, w \in WidthInputs :
        /\ InCanvas(pt) /\ Room(MaxMarksMap)
        /\ mousedown(1, pt, w)
        /\ last' = Quiet /\ unit' = NoUnit /\ UNCHANGED <<snaps, tagged>>

MouseMoveAt ==
    \E pt \in MapPts :
        /\ InCanvas(pt)
        /\ wired[1].stroke > 0 => Marks(annotations) < MaxMarksMap
        /\ mousemove(1, pt)
        /\ last' = Quiet /\ unit' = NoUnit /\ UNCHANGED <<snaps, tagged>>

InitMap == \E d \in MapDocs : Session(d, FALSE)

NextMap ==
    \/ SetMode
    \/ ClickAt
    \/ MouseDownAt
    \/ MouseMoveAt
    \/ MouseUp
    \/ SavePdf
    \/ SavePdfDraw

SpecMap == InitMap /\ [][NextMap]_vars

-----------------------------------------------------------------------------
(* The claims *)

\* C1: undo is the exact inverse of the edit unit just before it.  After a
\* text click that added a text, or a gesture from mousedown through its
\* mousemoves to mouseup, undo leaves annotations equal (same length, order,
\* fields and points) to what it was as the unit began.
C1_UndoInvertsEditUnit ==
    unit.phase = "undone" => annotations = unit.pre

\* a gesture with a mousemove has been undone
C1_Witness ==
    unit.phase = "undone" /\ unit.moves = 1

\* C2: history never holds more than 50 snapshots.  After N > 50 pushes the
\* undos that follow retrieve the 50 newest snapshots, newest first (the k-th
\* undo restores what the (N - k + 1)-th push was taken of, the oldest N - 50
\* being gone), and the 51st undo finds history empty and restores nothing.
C2_HistoryCap ==
    LET N == Len(snaps.pushed)
        k == snaps.undos
    IN
    /\ Len(history) <= HistoryCap
    /\ (snaps.clean /\ N > HistoryCap /\ k \in 1..HistoryCap)
          => /\ annotations = snaps.pushed[N - k + 1]
             /\ Len(history) = HistoryCap - k
    /\ (snaps.clean /\ N > HistoryCap /\ k = HistoryCap + 1)
          => /\ history = <<>>
             /\ annotations = snaps.pushed[N - HistoryCap + 1]
             /\ last.op = "undo" /\ last.err = "empty"

\* more than 50 pushes, then 51 undos
C2_Witness ==
    snaps.clean /\ Len(snaps.pushed) > HistoryCap + 1 /\ snaps.undos = HistoryCap + 1

\* C3: undo with history empty is a no-op.  It leaves annotations, history,
\* the page views (and what they show) and the byte buffer as they were, and
\* ends in its early return, not in an error.
C3_UndoOnEmptyIsNoOp ==
    [][(history = <<>> /\ UndoStep)
          => /\ UNCHANGED <<annotations, history, pages, wired, painted, pdfBytes>>
             /\ last'.op = "undo" /\ last'.err = "empty"]_vars

\* undo has found history empty while annotations were held
C3_Witness ==
    last.op = "undo" /\ last.err = "empty" /\ annotations # <<>>

\* C4: a load that fails leaves the session as it was.  When getDocument
\* rejects (malformed bytes), annotations, history, pages and pdfBytes are what
\* they were before the load began: the load has written none of them anew.
C4_FailedLoadKeepsSession ==
    last.op = "renderPdf" => ~last.out[1].changed

\* C5: a load begun while another is suspended at an await wins.  Once both
\* have finished, pages holds the pages of the later document, in document
\* order, and nothing of the earlier one; pdfBytes is the later document's.
C5_NewerLoadWins ==
    (races > 0 /\ loads = {} /\ docKind(pdfBytes) = "ok") => pages = PagesOf(pdfBytes)

\* the annotations held, live or in a snapshot
Held ==
    {annotations[j] : j \in 1..Len(annotations)}
        \cup UNION {{history[h][j] : j \in 1..Len(history[h])} : h \in 1..Len(history)}

\* C6: loadFile and createNewPdf replace the session wholesale.  Right after
\* the reset annotations and history are empty, and at no time is an annotation
\* of an earlier document held, live or in a snapshot undo could restore.
C6_ResetReplacesSession ==
    /\ last.op \in {"loadFile", "createNewPdf"} => annotations = <<>> /\ history = <<>>
    /\ \A a \in Held : a.doc = pdfBytes

\* a reset has replaced a session that held annotations and snapshots
C6_Witness ==
    /\ last.op \in {"loadFile", "createNewPdf"}
    /\ last.out[1].annotations /\ last.out[1].history

\* the drawText and drawLine calls among a run's calls
DrawCalls(calls) == SelectSeq(calls, LAMBDA c : c.op \in {"drawText", "drawLine"})

\* whether a's page index finds a page of doc and a page view
Resolves(a, doc) == a.pageIndex < numPages(doc) /\ a.pageIndex < Len(pages)

\* C7: the export is complete and exact.  The draw calls a run of savePdf
\* makes are those of the annotations live at its loop whose page index
\* resolves, each one's calls, and no others.
C7_ExportCompleteExact ==
    last.op = "savePdfDraw" =>
        LET doc == last.out[1].doc IN
        DrawCalls(last.out) =
            Concat([j \in 1..Len(annotations) |->
                      IF Resolves(annotations[j], doc)
                      THEN DrawOne(annotations[j], doc, pages).calls ELSE <<>>])

\* C8: an annotation whose page index does not resolve is skipped by redraw
\* and by savePdf, without an error, and the others are still drawn and
\* exported.
C8_DanglingSkipped ==
    /\ \A k \in 1..Len(pages) :
          Len(redraw(pages, annotations)[k])
              = Cardinality({j \in 1..Len(annotations) : annotations[j].pageIndex + 1 = k})
    /\ last.op = "savePdfDraw" =>
          /\ last.err = "download"
          /\ \A j \in 1..Len(annotations) :
                Resolves(annotations[j], last.out[1].doc) =>
                    \A c \in 1..Len(DrawOne(annotations[j], last.out[1].doc, pages).calls) :
                        \E d \in 1..Len(last.out) :
                            last.out[d] = DrawOne(annotations[j], last.out[1].doc, pages).calls[c]

\* C9: savePdf with no document loaded fails cleanly.  With pdfBytes null it
\* shows the alert, makes no call to pdf-lib (no load, drawText, drawLine or
\* save), offers no download and leaves annotations, history and the page
\* views as they were.
C9_SaveWithoutDocument ==
    [][(pdfBytes = "null" /\ SavePdf)
          => /\ last'.op = "savePdf" /\ last'.err = "alert" /\ last'.out = <<>>
             /\ save' = Idle
             /\ UNCHANGED <<annotations, history, pages, wired, painted, pdfBytes>>]_vars

\* savePdf has run with no document loaded
C9_Witness ==
    last.op = "savePdf" /\ last.err = "alert"

\* where the overlay point pt of annotation a lies on its page of doc
PagePoint(a, pt, doc) ==
    <<MapX(pt[1], getSize(doc), pages[a.pageIndex + 1]),
      MapY(pt[2], getSize(doc), pages[a.pageIndex + 1], 0)>>

\* what a draw call is of: a text on a page, or a line between two points of one
Subject(c) ==
    IF c.op = "drawText" THEN [op |-> c.op, page |-> c.page, text |-> c.text]
    ELSE [op |-> c.op, page |-> c.page, start |-> c.start, end |-> c.end]

\* one drawText for a text; for a stroke of N points, N - 1 drawLines, each
\* from a point to the next
Segments(a, doc) ==
    IF a.type = "text"
    THEN <<[op |-> "drawText", page |-> a.pageIndex, text |-> a.text]>>
    ELSE [i \in 1..(Len(a.points) - 1) |->
            [op |-> "drawLine", page |-> a.pageIndex,
             start |-> PagePoint(a, a.points[i], doc),
             end |-> PagePoint(a, a.points[i + 1], doc)]]

\* C10: savePdf makes its draw calls in the order the annotations were
\* appended in.  Each annotation drawn gives one drawText if a text, and if a
\* stroke of N points N - 1 drawLines joining consecutive points in point
\* order (none for a stroke of 0 or 1 points).
C10_FlattenOrderAndSegments ==
    last.op = "savePdfDraw" =>
        LET doc == last.out[1].doc
            drawn == DrawCalls(last.out)
        IN
        \E D \in SUBSET {j \in 1..Len(annotations) : Resolves(annotations[j], doc)} :
            [c \in 1..Len(drawn) |-> Subject(drawn[c])]
                = Concat([j \in 1..Len(annotations) |->
                            IF j \in D THEN Segments(annotations[j], doc) ELSE <<>>])

\* an export of a text and, after it, a stroke of three points
C10_Witness ==
    /\ last.op = "savePdfDraw"
    /\ \E j \in 1..Len(annotations) :
          /\ j > 1 /\ annotations[j - 1].type = "text"
          /\ annotations[j].type = "stroke" /\ Len(annotations[j].points) = 3
    /\ Len(DrawCalls(last.out)) = 3

\* the annotations of anns that lie on overlay k, in the order of anns
OnOverlay(k, anns) == SelectSeq(anns, LAMBDA a : a.pageIndex + 1 = k)

\* what overlay k shows when the annotations of anns are drawn in their order
InOrder(k, anns) == [j \in 1..Len(OnOverlay(k, anns)) |-> Shape(OnOverlay(k, anns)[j])]

\* C11: redraw draws the annotations in the order they were appended in,
\* texts and strokes alike; and the redraw of an undo that follows an edit
\* unit draws what was held before the unit, in the order it was held in.
C11_ZOrder ==
    /\ \A k \in 1..Len(pages) : redraw(pages, annotations)[k] = InOrder(k, annotations)
    /\ unit.phase = "undone" =>
          \A k \in 1..Len(pages) : painted[k] = InOrder(k, unit.pre)

\* a text and a stroke are held, in that order, and the unit after them was undone
C11_Witness ==
    /\ unit.phase = "undone"
    /\ Len(annotations) = 2
    /\ annotations[1].type = "text" /\ annotations[2].type = "stroke"

\* the sequences of annotation objects held: the live one, then the entries
Sequences == <<annotations>> \o history

\* C12: no entry of history shares an object with the live sequence or with
\* another entry, and no step changes the contents of an entry that stays in
\* history: an entry is pushed, popped or shifted out, never written (not
\* by a mousemove on a stroke whose copy it holds, nor by an edit after undo).
C12_SnapshotIsolation ==
    /\ [](tagged =>
            \A s, t \in 1..Len(Sequences) :
                s # t => Oids(Sequences[s]) \cap Oids(Sequences[t]) = {})
    /\ [][\/ history' = history
          \/ history' = Front(history)
          \/ Len(history) < HistoryCap /\ Front(history') = history
          \/ Len(history) = HistoryCap /\ Front(history') = Tail(history)
          \/ history' = <<>>]_vars

\* a stroke has got a point since an entry still in history took a copy of it
C12_Witness ==
    /\ tagged
    /\ \E h \in 1..Len(history) : \E j \in 1..Len(history[h]) :
          /\ j <= Len(annotations)
          /\ annotations[j].type = "stroke" /\ history[h][j].type = "stroke"
          /\ annotations[j].pageIndex = history[h][j].pageIndex
          /\ Len(annotations[j].points) = Len(history[h][j].points) + 1

\* history after exactly one push of the annotations held before the step
PushedOnce ==
    \/ Len(history) < HistoryCap /\ history' = Append(history, annotations)
    \/ Len(history) = HistoryCap /\ history' = Append(Tail(history), annotations)

\* C13: a mousedown that starts a stroke pushes exactly one entry, a mousemove
\* and a mouseup push none, and a text click that adds an annotation pushes
\* exactly one: while a gesture is open or just done, the newest entry is the
\* sequence held before the gesture.
C13_OneGestureOneEntry ==
    /\ [][/\ (\E k \in 1..Len(pages), pt \in DownPts, w \in WidthInputs :
                mousedown(k, pt, w)) => PushedOnce
          /\ (\E k \in 1..Len(pages), pt \in MovePts : mousemove(k, pt))
                => history' = history
          /\ mouseup => history' = history
          /\ (/\ \E k \in 1..Len(pages), pt \in ClickPts, text \in Texts,
                     sz \in SizeInputs : click(k, pt, text, sz)
              /\ Len(annotations') = Len(annotations) + 1) => PushedOnce]_vars
    /\ [](unit.phase \in {"open", "done"} =>
            history # <<>> /\ Last(history) = unit.pre)

\* a stroke begun, extended and ended, after a text was added
C13_Witness ==
    /\ unit.phase = "done" /\ unit.moves = 1
    /\ Len(unit.pre) = 1 /\ unit.pre[1].type = "text"
    /\ Len(annotations) = 2 /\ Len(history) = 2

\* the positions held before and after a step
Both == 1..(IF Len(annotations) < Len(annotations') THEN Len(annotations)
                                                     ELSE Len(annotations'))

\* C14: a mouseup leaves no overlay drawing, an overlay starts drawing only
\* by its mousedown, and a step that is not an undo changes an annotation it
\* keeps only by appending a point to the stroke that a drawing overlay holds;
\* so from a mouseup to the next mousedown no mousemove on any overlay
\* changes an annotation.  A text is the same after every step that keeps it.
C14_StrokeFrozen ==
    [][/\ mouseup => \A k \in 1..Len(wired') : ~wired'[k].drawing
       /\ (\E k \in 1..Len(wired) :
              k <= Len(wired') /\ ~wired[k].drawing /\ wired'[k].drawing)
            => \E k \in 1..Len(pages), pt \in DownPts, w \in WidthInputs :
                   mousedown(k, pt, w)
       /\ \A j \in Both :
            /\ (history' = history /\ annotations'[j] # annotations[j])
                 => /\ \E k \in 1..Len(wired) :
                          wired[k].drawing /\ wired[k].stroke = j
                    /\ annotations[j].type = "stroke"
                    /\ Front(annotations'[j].points) = annotations[j].points
            /\ annotations[j].type = "text" => annotations'[j] = annotations[j]
       /\ (last'.op = "mousemove" /\ \A k \in 1..Len(wired) : ~wired[k].drawing)
            => annotations' = annotations]_vars

\* a mousemove has come after the mouseup that ended a stroke of two points
C14_Witness ==
    /\ last.op = "mousemove"
    /\ unit.phase = "done" /\ unit.moves = 1
    /\ Len(pages) = 2
    /\ \A k \in 1..Len(wired) : ~wired[k].drawing
    /\ annotations # <<>> /\ Last(annotations).type = "stroke"

\* the fraction f is a / b
Is(f, a, b) == f[1] * b = a * f[2]

\* pt of the step's overlay 1 lies at f on the page: x * PW / W, PH - y * PH / H
MapsTo(pt, f) ==
    LET W == pages[1].width
        H == pages[1].height
        PW == getSize(pdfBytes).width
        PH == getSize(pdfBytes).height
    IN /\ Is(f[1], pt[1] * PW, W)
       /\ Is(f[2], PH * H - pt[2] * PH, H)

Lines(calls) == SelectSeq(calls, LAMBDA c : c.op = "drawLine")
TextsDrawn(calls) == SelectSeq(calls, LAMBDA c : c.op = "drawText")
Strokes == SelectSeq(annotations, LAMBDA a : a.type = "stroke")
TextsHeld == SelectSeq(annotations, LAMBDA a : a.type = "text")

\* C15: the export draws each segment of a stroke from (px * PW / W,
\* PH - py * PH / H) of its first point to that of its second, on a page of
\* physical size (PW, PH) under an overlay of pixel size (W, H); with
\* (900, 1400) over (612, 792), (0, 0) goes to (0, 792) and (900, 1400) to
\* (612, 0).
C15_CoordinateMapping ==
    (last.op = "savePdfDraw" /\ Len(pages) = 1) =>
        /\ \A j \in 1..Len(Strokes) : \A i \in 1..(Len(Strokes[j].points) - 1) :
              \E c \in 1..Len(Lines(last.out)) :
                  /\ MapsTo(Strokes[j].points[i], Lines(last.out)[c].start)
                  /\ MapsTo(Strokes[j].points[i + 1], Lines(last.out)[c].end)
        /\ \A c \in 1..Len(Lines(last.out)) :
              \E j \in 1..Len(Strokes) : \E i \in 1..(Len(Strokes[j].points) - 1) :
                  /\ MapsTo(Strokes[j].points[i], Lines(last.out)[c].start)
                  /\ MapsTo(Strokes[j].points[i + 1], Lines(last.out)[c].end)
        /\ (pages[1].width = 900 /\ pages[1].height = 1400
              /\ getSize(pdfBytes) = [width |-> 612, height |-> 792]) =>
                \A j \in 1..Len(Strokes) :
                    Strokes[j].points = <<<<0, 0>>, <<900, 1400>>>> =>
                        \E c \in 1..Len(Lines(last.out)) :
                            /\ Lines(last.out)[c].start = <<<<0, 1>>, <<792, 1>>>>
                            /\ Lines(last.out)[c].end = <<<<612, 1>>, <<0, 1>>>>

\* an export of a stroke drawn from corner to corner of an overlay 900 x 1400
C15_Witness ==
    /\ last.op = "savePdfDraw"
    /\ pages[1].width = 900 /\ pages[1].height = 1400
    /\ getSize(pdfBytes) = [width |-> 612, height |-> 792]
    /\ \E j \in 1..Len(Strokes) : Strokes[j].points = <<<<0, 0>>, <<900, 1400>>>>
    /\ Len(Lines(last.out)) = 1

\* the size a text is exported at: the stored one, 18 when none is stored
SizeOf(a) == IF a.size = 0 THEN 18 ELSE a.size

\* C16: for a text at pixel (x, y) of stored size s, drawText gets
\* y = PH - y * PH / H - s and size s (18 when none is stored), which is s
\* below where a stroke point at the same pixel is drawn; a text at y = 100 of
\* size 18 under an overlay 900 x 1400 over a page 612 x 792 is drawn at
\* 792 - 100 * 792 / 1400 - 18 = 5022 / 7.
C16_TextOffset ==
    (last.op = "savePdfDraw" /\ Len(pages) = 1) =>
        LET H == pages[1].height
            PH == getSize(pdfBytes).height
            Drawn(a, c) ==
                /\ c.size = SizeOf(a)
                /\ Is(c.y, PH * H - a.y * PH - SizeOf(a) * H, H)
        IN
        /\ Len(TextsDrawn(last.out)) = Len(TextsHeld)
        /\ \A j \in 1..Len(TextsHeld) :
              LET a == TextsHeld[j]
                  c == TextsDrawn(last.out)[j]
              IN
              /\ Drawn(a, c)
              /\ \A l \in 1..Len(Lines(last.out)) :
                    \A q \in 1..Len(Strokes) :
                        (/\ Strokes[q].points # <<>>
                         /\ Strokes[q].points[1][2] = a.y
                         /\ MapsTo(Strokes[q].points[1], Lines(last.out)[l].start))
                        => LET top == Lines(last.out)[l].start[2] IN
                           Is(c.y, top[1] - SizeOf(a) * top[2], top[2])
              /\ (a.y = 100 /\ SizeOf(a) = 18 /\ H = 1400 /\ PH = 792)
                    => c.y = <<5022, 7>>

\* an export of a text of size 18 at y = 100 and a stroke begun at the same
\* pixel, under an overlay 900 x 1400
C16_Witness ==
    /\ last.op = "savePdfDraw"
    /\ pages[1].height = 1400 /\ getSize(pdfBytes).height = 792
    /\ \E j \in 1..Len(TextsHeld) :
          TextsHeld[j].y = 100 /\ SizeOf(TextsHeld[j]) = 18
    /\ \E q \in 1..Len(Strokes) :
          Strokes[q].points # <<>> /\ Strokes[q].points[1] = <<50, 100>>
    /\ Len(Lines(last.out)) = 1 /\ Len(TextsDrawn(last.out)) = 1

\* C17: a text click whose prompt is cancelled or left empty adds no
\* annotation and leaves history as it is, so the next undo still reverts the
\* last edit made.
C17_CancelledClickKeepsHistory ==
    [][(last'.op = "click" /\ last'.err = "cancelled")
          => annotations' = annotations /\ history' = history]_vars

\* what can be seen of a picture: the texts, and the strokes of two points or more
Visible(shapes) ==
    SelectSeq(shapes, LAMBDA sh : sh.type = "text" \/ Len(sh.points) >= 2)

\* every overlay shows the visible annotations of its page, in their order
Shows ==
    /\ Len(painted) = Len(pages)
    /\ \A k \in 1..Len(pages) :
          Visible(painted[k]) = Visible(InOrder(k, annotations))

\* C18: after every step that changes the annotations (a text click, a
\* mousemove, an undo) and after the step that completes a render, each overlay
\* shows exactly the visible annotations of its page, in order.
C18_OverlayReflectsStore ==
    [][(\/ annotations' # annotations
        \/ loads # {} /\ loads' = {} /\ Len(pages') = Len(pages) + 1)
          => Shows']_vars

\* C19: in every state, loads in flight or not, the page view at position i
\* of pages (counted from 0) is the overlay whose handlers were wired with
\* pageIndex i, so that pages[a.pageIndex] is the overlay annotation a was
\* made on.
C19_PageViewIndex ==
    \A k \in 1..Len(pages) : pages[k].pageIndex = k - 1

\* C20: right after a mousedown in a drawing mode the annotations are those
\* held before and, at the end, one new stroke of that overlay's page index
\* holding one point, the position of the mousedown.
C20_BeginStrokeOnePoint ==
    [][\A k \in 1..Len(pages), pt \in DownPts, w \in WidthInputs :
          mousedown(k, pt, w) =>
              /\ Len(annotations') = Len(annotations) + 1
              /\ Front(annotations') = annotations
              /\ Last(annotations').type = "stroke"
              /\ Last(annotations').pageIndex = pages[k].pageIndex
              /\ Last(annotations').points = <<pt>>]_vars

\* C21: a mousemove on an overlay whose gesture is under way appends one
\* point, the pointer's, to the stroke that overlay's latest mousedown made
\* (the one its closure holds) and changes nothing else: not the length or
\* order of the annotations, not any other annotation (a stroke in flight on
\* another overlay included), not history.  An overlay's closure takes a
\* stroke only as that stroke is appended for its page (its mousedown), so
\* the stroke it holds lies on that overlay's page.
C21_MoveAppendsToOwnStroke ==
    /\ [][/\ \A k \in 1..Len(pages), pt \in MovePts :
                (mousemove(k, pt) /\ wired[k].stroke > 0) =>
                    LET j == wired[k].stroke IN
                    /\ annotations' = [annotations EXCEPT
                                           ![j].points = Append(@, pt)]
                    /\ annotations[j].type = "stroke"
                    /\ history' = history
          /\ \A k \in 1..Len(wired) :
                (k <= Len(wired') /\ wired'[k].stroke > 0
                    /\ wired'[k].stroke # wired[k].stroke)
                  => /\ Front(annotations') = annotations
                     /\ wired'[k].stroke = Len(annotations')
                     /\ Last(annotations').type = "stroke"
                     /\ Last(annotations').pageIndex = pages[k].pageIndex
                     /\ \A i \in 1..Len(wired) : i # k => wired'[i] = wired[i]]_vars
    /\ [](\A k \in 1..Len(wired) :
            wired[k].stroke > 0 =>
                /\ wired[k].stroke <= Len(annotations)
                /\ k <= Len(pages)
                /\ annotations[wired[k].stroke].type = "stroke"
                /\ annotations[wired[k].stroke].pageIndex = pages[k].pageIndex)

\* two strokes in flight on two overlays, and the earlier one has got a point
\* since the later one began
C21_Witness ==
    /\ Len(wired) = 2 /\ Len(annotations) = 2
    /\ wired[1].drawing /\ wired[2].drawing
    /\ wired[1].stroke > 0 /\ wired[2].stroke > 0
    /\ wired[1].stroke # wired[2].stroke
    /\ \E k \in 1..2 :
          /\ wired[k].stroke = 1
          /\ Len(annotations[1].points) = Len(annotations[2].points) + 1

\* C22: no step of savePdf, whether the export ends in a download, a
\* rejected load or a TypeError, changes annotations, history, pages or
\* pdfBytes.  So right after an export of the document held, a second export
\* would load the same bytes and issue the same draw calls, and an undo pops
\* the entry that was newest before the export.
C22_ExportReadOnly ==
    /\ [][/\ (savePdf \/ savePdfDraw \/ savePdfLoadFails)
                => UNCHANGED <<annotations, history, pages, pdfBytes>>
          /\ (last.op \in {"savePdfDraw", "savePdf"} /\ history # <<>> /\ undo)
                => annotations' = Last(history) /\ history' = Front(history)]_vars
    /\ []((last.op = "savePdfDraw" /\ last.out[1].doc = pdfBytes) =>
            /\ DrawCalls(last.out) = Flatten(annotations, pdfBytes, pages).calls
            /\ (last.err = "TypeError") = Flatten(annotations, pdfBytes, pages).threw)

\* an export of a text has ended in a download, with an entry to undo
C22_Witness ==
    /\ last.op = "savePdfDraw" /\ last.err = "download"
    /\ last.out[1].doc = pdfBytes
    /\ annotations # <<>> /\ history # <<>>
    /\ DrawCalls(last.out) # <<>>

\* C23: once an undo or a reset has come between the mousedown of a gesture
\* and its mouseup, no mousemove, on that overlay or another, changes
\* annotations or history for as long as the gesture lasts: annotations stays
\* the sequence the undo or reset installed, without the stroke of the
\* gesture.
C23_StaleHandle ==
    /\ [][unit.phase = "cut" =>
            \A k \in 1..Len(pages), pt \in MovePts :
                mousemove(k, pt) =>
                    annotations' = annotations /\ history' = history]_vars
    /\ [](unit.phase = "cut" => annotations = unit.pre)

\* a stroke was begun while another was in flight on the other overlay, an
\* undo has taken it out, and a mousemove of the earlier gesture has followed
C23_Witness ==
    /\ unit.phase = "cut" /\ unit.moves = 2
    /\ Len(wired) = 2
    /\ wired[1].drawing /\ wired[2].drawing
    /\ Len(annotations) = 1 /\ annotations[1].type = "stroke"
    /\ unit.at = 2 /\ annotations[1].pageIndex = 0

=============================================================================
